---------------------------- MODULE Spec2Model ----------------------------
(***************************************************************************)
(* Location verification of the MCD HRMS ML service                       *)
(* (src/ml_service/main.py, POST /location/verify).                        *)
(*                                                                         *)
(* Units.  Python floats are modelled by integers:                         *)
(*   - latitudes / longitudes in micro-degrees (28.614 -> 28614000);       *)
(*   - distances and the office radius in decimetres (1 km = 10000);       *)
(*   - GPS accuracies in metres.                                           *)
(* Averages and percentages are kept as exact fractions [num, den] and     *)
(* compared by cross-multiplication.  Distances are the values the source  *)
(* computes, rounded to the decimetre, so a value formatted for display    *)
(* (.2f, round(x, 3)) may differ from the float's by one unit in its last  *)
(* place; no comparison of a check lies within that margin.                *)
(***************************************************************************)
EXTENDS Integers, Sequences, FiniteSets, TLC

\* Largest number of pings in a request of the model.
MaxPings == 4

(***************************************************************************)
(* Python values                                                           *)
(***************************************************************************)
\* Optional[...] fields: None, or a present value.
None == [isNone |-> TRUE]
Some(x) == [isNone |-> FALSE, val |-> x]

\* Python's round(x, n) / format(x, ".nf") on the fraction num/den, with
\* the result counted in units of 10^-n: nearest integer, ties to even.
RoundHalfEven(num, den) ==
    LET q == num \div den
        r == num % den
    IN  IF 2 * r < den THEN q
        ELSE IF 2 * r > den THEN q + 1
        ELSE IF q % 2 = 0 THEN q ELSE q + 1

\* round(x, places) of a coordinate held in micro-degrees, in micro-degrees.
RoundCoord(x, places) ==
    LET unit == IF places = 5 THEN 10 ELSE IF places = 3 THEN 1000 ELSE 100000
    IN  RoundHalfEven(x, unit) * unit

RECURSIVE SumSeq(_)
SumSeq(s) == IF s = <<>> THEN 0 ELSE Head(s) + SumSeq(Tail(s))

RECURSIVE MaxSeq(_)
MaxSeq(s) == IF Len(s) = 1 THEN s[1]
             ELSE LET m == MaxSeq(Tail(s)) IN IF s[1] >= m THEN s[1] ELSE m

RECURSIVE MinSeq(_)
MinSeq(s) == IF Len(s) = 1 THEN s[1]
             ELSE LET m == MinSeq(Tail(s)) IN IF s[1] <= m THEN s[1] ELSE m

\* All sequences over S of length 0..n.
RECURSIVE SeqsUpTo(_, _)
SeqsUpTo(S, n) ==
    IF n = 0 THEN {<<>>}
    ELSE LET shorter == SeqsUpTo(S, n - 1)
         IN  shorter \cup {Append(s, x) : s \in {t \in shorter : Len(t) = n - 1}, x \in S}

(***************************************************************************)
(* Request types                                                           *)
(***************************************************************************)
\* Coordinates the model's requests use, as <<lat, lng>> in micro-degrees:
\*  1 the office itself (exact at 3 decimals)   4 1e-6 degrees north of 3
\*  2 a fix 44 m from the office                  5 740 m from the office
\*  3 (28.6, 77.2), exact at 1 decimal            6 the antipode of 5
\*                                                7 latitude 95 (out of range)
Points ==
    << <<28614000, 77209000>>, <<28614213, 77209377>>,
       <<28600000, 77200000>>, <<28600001, 77200000>>,
       <<28619000, 77214000>>, <<-28619000, -102786000>>,
       <<95000000, 77209000>> >>

\* haversine_distance raised ValueError (math domain error).
DomainError == -1

\* The spherical law of cosines, R * acos(sin sin + cos cos cos(dlon)),
\* evaluated in floats on Points: from a point to itself the argument of
\* acos is 0.9999999999999999 (a distance of 9.5 cm) at point 1 and above
\* 1.0 (ValueError) at points 5 and 6.
HaversineTable_lawOfCosines ==
    << <<1, 438, 17875, 17874, 7398, 200143470, 73817864>>,
       <<438, 0, 18264, 18263, 6978, 200143890, 73817627>>,
       <<17875, 18264, 0, 1, 25162, 200125706, 73833431>>,
       <<17874, 18263, 1, 0, 25161, 200125707, 73833430>>,
       <<7398, 6978, 25162, 25161, DomainError, DomainError, 73812304>>,
       <<200143470, 200143890, 200125706, 200125707, DomainError, DomainError, 126338564>>,
       <<73817864, 73817627, 73833431, 73833430, 73812304, 126338564, 0>> >>

\* haversine_distance evaluated on Points (row, column = index in Points),
\* rounded to the decimetre.  For the antipodal pair 5/6 the float `a`
\* exceeds 1.0 and math.sqrt(1 - a) raises.  On the diagonal the value is
\* the float 0.0: both deltas are 0.0, so a = 0.0 and atan2(0.0, 1.0) = 0.0.
HaversineTable ==
    << <<0, 438, 17875, 17874, 7398, 200143470, 73817864>>,
       <<438, 0, 18264, 18263, 6978, 200143890, 73817627>>,
       <<17875, 18264, 0, 1, 25162, 200125706, 73833431>>,
       <<17874, 18263, 1, 0, 25161, 200125707, 73833430>>,
       <<7398, 6978, 25162, 25161, 0, DomainError, 73812304>>,
       <<200143470, 200143890, 200125706, 200125707, DomainError, 0, 126338564>>,
       <<73817864, 73817627, 73833431, 73833430, 73812304, 126338564, 0>> >>

PointIndex(lat, lng) == CHOOSE i \in 1..Len(Points) : Points[i] = <<lat, lng>>

\* Distance between two points in decimetres, or DomainError.
haversine_distance(lat1, lon1, lat2, lon2) ==
    HaversineTable[PointIndex(lat1, lon1)][PointIndex(lat2, lon2)]

\* A fix at point i.  Its timestamp is the minute of the day at which point
\* i was recorded (a fixed one per point), so a ping list that visits the
\* points in another order than 1, 2, ... has its timestamps out of order.
Ping(i, acc) ==
    [lat |-> Points[i][1], lng |-> Points[i][2], accuracy |-> acc,
     timestamp |-> 540 + 15 * i]

\* LocationPing: lat, lng are unconstrained floats, accuracy is optional.
\* (altitude and speed are never read by a check.)
LocationPing ==
    { Ping(1, Some(12)), Ping(2, Some(9)), Ping(3, Some(8)), Ping(4, Some(150)),
      Ping(5, None), Ping(6, Some(0)), Ping(7, None) }

\* employee_id, employee_name and office_radius_km of the model's requests.
\* The radius is in decimetres: the default 0.5 km, half the distance of
\* point 5 from the office, a negative radius, the distance of point 5 from
\* the office, and 2 km.
RequestHeaders ==
    { [id |-> 101, name |-> "Asha", radius |-> 5000],
      [id |-> 202, name |-> "Ravi", radius |-> 3699],
      [id |-> 101, name |-> "Asha", radius |-> -5000],
      [id |-> 101, name |-> "Asha", radius |-> 7398],
      [id |-> 202, name |-> "Ravi", radius |-> 20000] }

\* Lists of ten pings, the first k at point 5 and the others at point 3:
\* with the radius at the distance of point 5, k in ten pings are in zone.
\* (Ten pings at point 5 are left out: the float mean of ten equal distances
\* lies one unit in the last place above the distance, which the integers
\* of this model do not reproduce.)
ZoneProfiles ==
    { [i \in 1..10 |-> IF i <= k THEN Ping(5, None) ELSE Ping(3, Some(8))] : k \in 0..9 }

\* Requests with a radius of 80 m whose pings are at the office or at point
\* 5, more than 8 radii away: one such ping in four leaves 75% of the pings
\* in zone and puts the average distance above twice the radius.
TightZoneRequests ==
    { [employee_id |-> 101, employee_name |-> "Asha",
       office_lat |-> Points[1][1], office_lng |-> Points[1][2],
       office_radius_km |-> 800, pings |-> ps] :
         ps \in SeqsUpTo({Ping(1, Some(12)), Ping(5, None)}, MaxPings) }

\* LocationVerificationRequest: the fields are typed, nothing is range-checked.
LocationVerificationRequest ==
    { [employee_id |-> h.id, employee_name |-> h.name,
       office_lat |-> Points[1][1], office_lng |-> Points[1][2],
       office_radius_km |-> h.radius, pings |-> ps] :
         h \in RequestHeaders,
         ps \in SeqsUpTo(LocationPing, MaxPings) \cup ZoneProfiles }
    \cup TightZoneRequests

(***************************************************************************)
(* verify_location: metrics (lines 432-464)                                *)
(***************************************************************************)
\* Exact fractions.
Frac(n, d) == [num |-> n, den |-> d]
FracGT(f, k) == f.num > k * f.den
FracLT(f, k) == f.num < k * f.den

\* dist of every ping from the office, in input order (line 440).
distances_from_office(request) ==
    [i \in 1..Len(request.pings) |->
        haversine_distance(request.pings[i].lat, request.pings[i].lng,
                           request.office_lat, request.office_lng)]

\* movements computed after sorting the pings by timestamp.
movements_byTimestamp(request) ==
    LET sorted == SortSeq(request.pings, LAMBDA p, q : p.timestamp < q.timestamp)
    IN  [i \in 1..(Len(sorted) - 1) |->
            haversine_distance(sorted[i].lat, sorted[i].lng,
                               sorted[i + 1].lat, sorted[i + 1].lng)]

\* movement between ping i-1 and ping i, for i > 0, in input order (444-447).
movements(request) ==
    [i \in 1..(Len(request.pings) - 1) |->
        haversine_distance(request.pings[i].lat, request.pings[i].lng,
                           request.pings[i + 1].lat, request.pings[i + 1].lng)]

\* `if ping.accuracy:` keeps an accuracy that is neither None nor 0.
Truthy(acc) == ~acc.isNone /\ acc.val # 0

accuracies(request) ==
    LET kept == SelectSeq(request.pings, LAMBDA p : Truthy(p.accuracy))
    IN  [i \in 1..Len(kept) |-> kept[i].accuracy.val]

\* A haversine_distance call of the loop raises; the ValueError leaves
\* verify_location, which has no handler around the loop.
LoopRaises(request) ==
    \/ \E i \in 1..Len(request.pings) : distances_from_office(request)[i] = DomainError
    \/ \E i \in 1..(Len(request.pings) - 1) : movements(request)[i] = DomainError

\* unique_coords without the rounding to 5 decimals.
unique_coords_exact(request) ==
    { <<request.pings[i].lat, request.pings[i].lng>> : i \in 1..Len(request.pings) }

\* unique_coords (line 509).
unique_coords(request) ==
    { <<RoundCoord(request.pings[i].lat, 5), RoundCoord(request.pings[i].lng, 5)>> :
        i \in 1..Len(request.pings) }

\* The locals computed at lines 455-464 and 509, for a non-empty ping list.
Metrics(request) ==
    LET d == distances_from_office(request)
        m == movements(request)
        a == accuracies(request)
        n == Len(request.pings)
        in_zone == Cardinality({i \in 1..n : d[i] <= request.office_radius_km})
    IN  [ n_pings        |-> n,
          avg_distance   |-> Frac(SumSeq(d), n),
          max_distance   |-> MaxSeq(d),
          min_distance   |-> MinSeq(d),
          pings_in_zone  |-> in_zone,
          zone_percentage |-> Frac(in_zone * 100, n),
          movements      |-> m,
          total_movement |-> IF m # <<>> THEN SumSeq(m) ELSE 0,
          avg_accuracy   |-> IF a # <<>> THEN Frac(SumSeq(a), Len(a)) ELSE Frac(50, 1),
          unique_coords  |-> Cardinality(unique_coords(request)),
          office_radius_km |-> request.office_radius_km,
          pings          |-> request.pings ]

(***************************************************************************)
(* verify_location: the eight checks (lines 466-525)                       *)
(***************************************************************************)
\* FirstJump for a loop without `break` that keeps the last movement above
\* 2 km.
FirstJump_last(m) ==
    IF \E i \in 1..Len(m.movements) : m.movements[i] > 20000
    THEN CHOOSE i \in 1..Len(m.movements) :
            /\ m.movements[i] > 20000
            /\ \A j \in (i + 1)..Len(m.movements) : m.movements[j] <= 20000
    ELSE 0

\* Index of the first movement above 2 km (the loop of lines 501-505 breaks
\* there), or 0 when there is none.
FirstJump(m) ==
    IF \E i \in 1..Len(m.movements) : m.movements[i] > 20000
    THEN CHOOSE i \in 1..Len(m.movements) :
            /\ m.movements[i] > 20000
            /\ \A j \in 1..(i - 1) : m.movements[j] <= 20000
    ELSE 0

\* `x == round(x, places)` for both coordinates of a ping.
IsRound(ping, places) ==
    /\ ping.lat = RoundCoord(ping.lat, places)
    /\ ping.lng = RoundCoord(ping.lng, places)

\* CheckFires with check 3 looking for one movement below 0.001 km where
\* the code tests the total.
CheckFires_stationaryPair(k, m) ==
    CASE k = 1 -> FracGT(m.avg_distance, m.office_radius_km * 2)
      [] k = 2 -> FracLT(m.zone_percentage, 70)
      [] k = 3 -> m.n_pings > 3 /\ \E i \in 1..Len(m.movements) : m.movements[i] < 10
      [] k = 4 -> m.total_movement > 50000
      [] k = 5 -> FracGT(m.avg_accuracy, 100)
      [] k = 6 -> FirstJump(m) # 0
      [] k = 7 -> /\ m.unique_coords = 1
                  /\ m.n_pings > 3
                  /\ IsRound(m.pings[1], 3)
      [] k = 8 -> \E i \in 1..Len(m.pings) : i <= 3 /\ IsRound(m.pings[i], 1)

\* CheckFires with check 8 looking at every ping where the code has
\* `pings[:3]`.
CheckFires_roundAnywhere(k, m) ==
    CASE k = 1 -> FracGT(m.avg_distance, m.office_radius_km * 2)
      [] k = 2 -> FracLT(m.zone_percentage, 70)
      [] k = 3 -> m.n_pings > 3 /\ m.total_movement < 10
      [] k = 4 -> m.total_movement > 50000
      [] k = 5 -> FracGT(m.avg_accuracy, 100)
      [] k = 6 -> FirstJump(m) # 0
      [] k = 7 -> /\ m.unique_coords = 1
                  /\ m.n_pings > 3
                  /\ IsRound(m.pings[1], 3)
      [] k = 8 -> \E i \in 1..Len(m.pings) : IsRound(m.pings[i], 1)

\* CheckFires with check 3 firing from 3 pings on (`len(pings) > 2`).
CheckFires_stationary3(k, m) ==
    CASE k = 1 -> FracGT(m.avg_distance, m.office_radius_km * 2)
      [] k = 2 -> FracLT(m.zone_percentage, 70)
      [] k = 3 -> m.n_pings > 2 /\ m.total_movement < 10
      [] k = 4 -> m.total_movement > 50000
      [] k = 5 -> FracGT(m.avg_accuracy, 100)
      [] k = 6 -> FirstJump(m) # 0
      [] k = 7 -> /\ m.unique_coords = 1
                  /\ m.n_pings > 3
                  /\ IsRound(m.pings[1], 3)
      [] k = 8 -> \E i \in 1..Len(m.pings) : i <= 3 /\ IsRound(m.pings[i], 1)

\* CheckFires with check 2 firing from `<=` where the code has `<`.
CheckFires_zoneOrEqual(k, m) ==
    CASE k = 1 -> FracGT(m.avg_distance, m.office_radius_km * 2)
      [] k = 2 -> ~FracGT(m.zone_percentage, 70)
      [] k = 3 -> m.n_pings > 3 /\ m.total_movement < 10
      [] k = 4 -> m.total_movement > 50000
      [] k = 5 -> FracGT(m.avg_accuracy, 100)
      [] k = 6 -> FirstJump(m) # 0
      [] k = 7 -> /\ m.unique_coords = 1
                  /\ m.n_pings > 3
                  /\ IsRound(m.pings[1], 3)
      [] k = 8 -> \E i \in 1..Len(m.pings) : i <= 3 /\ IsRound(m.pings[i], 1)

\* CheckFires with check 1 firing from `>=` where the code has `>`.
CheckFires_farOrEqual(k, m) ==
    CASE k = 1 -> ~FracLT(m.avg_distance, m.office_radius_km * 2)
      [] k = 2 -> FracLT(m.zone_percentage, 70)
      [] k = 3 -> m.n_pings > 3 /\ m.total_movement < 10
      [] k = 4 -> m.total_movement > 50000
      [] k = 5 -> FracGT(m.avg_accuracy, 100)
      [] k = 6 -> FirstJump(m) # 0
      [] k = 7 -> /\ m.unique_coords = 1
                  /\ m.n_pings > 3
                  /\ IsRound(m.pings[1], 3)
      [] k = 8 -> \E i \in 1..Len(m.pings) : i <= 3 /\ IsRound(m.pings[i], 1)

\* CheckFires with check 3 lacking its `len(pings) > 3` guard.
CheckFires_stationaryAnyCount(k, m) ==
    CASE k = 1 -> FracGT(m.avg_distance, m.office_radius_km * 2)
      [] k = 2 -> FracLT(m.zone_percentage, 70)
      [] k = 3 -> m.total_movement < 10
      [] k = 4 -> m.total_movement > 50000
      [] k = 5 -> FracGT(m.avg_accuracy, 100)
      [] k = 6 -> FirstJump(m) # 0
      [] k = 7 -> /\ m.unique_coords = 1
                  /\ m.n_pings > 3
                  /\ IsRound(m.pings[1], 3)
      [] k = 8 -> \E i \in 1..Len(m.pings) : i <= 3 /\ IsRound(m.pings[i], 1)

\* CheckFires with check 5 comparing the average accuracy with 10 m where
\* the code has 100.
CheckFires_accuracy10(k, m) ==
    CASE k = 1 -> FracGT(m.avg_distance, m.office_radius_km * 2)
      [] k = 2 -> FracLT(m.zone_percentage, 70)
      [] k = 3 -> m.n_pings > 3 /\ m.total_movement < 10
      [] k = 4 -> m.total_movement > 50000
      [] k = 5 -> FracGT(m.avg_accuracy, 10)
      [] k = 6 -> FirstJump(m) # 0
      [] k = 7 -> /\ m.unique_coords = 1
                  /\ m.n_pings > 3
                  /\ IsRound(m.pings[1], 3)
      [] k = 8 -> \E i \in 1..Len(m.pings) : i <= 3 /\ IsRound(m.pings[i], 1)

\* CheckFires with check 7 asking for more than 4 pings where the code has
\* `len(pings) > 3`.
CheckFires_identical5(k, m) ==
    CASE k = 1 -> FracGT(m.avg_distance, m.office_radius_km * 2)
      [] k = 2 -> FracLT(m.zone_percentage, 70)
      [] k = 3 -> m.n_pings > 3 /\ m.total_movement < 10
      [] k = 4 -> m.total_movement > 50000
      [] k = 5 -> FracGT(m.avg_accuracy, 100)
      [] k = 6 -> FirstJump(m) # 0
      [] k = 7 -> /\ m.unique_coords = 1
                  /\ m.n_pings > 4
                  /\ IsRound(m.pings[1], 3)
      [] k = 8 -> \E i \in 1..Len(m.pings) : i <= 3 /\ IsRound(m.pings[i], 1)

\* The condition of check k on the locals m.
CheckFires(k, m) ==
    CASE k = 1 -> FracGT(m.avg_distance, m.office_radius_km * 2)
      [] k = 2 -> FracLT(m.zone_percentage, 70)
      [] k = 3 -> m.n_pings > 3 /\ m.total_movement < 10
      [] k = 4 -> m.total_movement > 50000
      [] k = 5 -> FracGT(m.avg_accuracy, 100)
      [] k = 6 -> FirstJump(m) # 0
      [] k = 7 -> /\ m.unique_coords = 1
                  /\ m.n_pings > 3
                  /\ IsRound(m.pings[1], 3)
      [] k = 8 -> \E i \in 1..Len(m.pings) : i <= 3 /\ IsRound(m.pings[i], 1)

\* Penalty with check 2 costing 25 where the code subtracts 20.
Penalty_zone25(k) ==
    CASE k = 1 -> 30
      [] k = 2 -> 25
      [] k = 3 -> 15
      [] k = 4 -> 15
      [] k = 5 -> 10
      [] k = 6 -> 20
      [] k = 7 -> 25
      [] k = 8 -> 15

\* Penalty with check 1 costing 20 where the code subtracts 30.
Penalty_far20(k) ==
    CASE k = 1 -> 20
      [] k = 2 -> 20
      [] k = 3 -> 15
      [] k = 4 -> 15
      [] k = 5 -> 10
      [] k = 6 -> 20
      [] k = 7 -> 25
      [] k = 8 -> 15

\* What check k subtracts from confidence_score when it fires.
Penalty(k) ==
    CASE k = 1 -> 30
      [] k = 2 -> 20
      [] k = 3 -> 15
      [] k = 4 -> 15
      [] k = 5 -> 10
      [] k = 6 -> 20
      [] k = 7 -> 25
      [] k = 8 -> 15

\* The list check k appends to.
IsRiskCheck(k) == k \in {1, 2, 4}

\* The string check k appends: the literal text and the formatted values
\* (.2f in hundredths of a km, .0f in whole units, the radius as held).
Finding(k, m) ==
    CASE k = 1 -> [check |-> 1, text |-> "Average location {}km from office (allowed: {}km)",
                   args |-> <<RoundHalfEven(m.avg_distance.num, m.avg_distance.den * 100),
                              m.office_radius_km>>]
      [] k = 2 -> [check |-> 2, text |-> "Only {}% of pings within work zone",
                   args |-> <<RoundHalfEven(m.zone_percentage.num, m.zone_percentage.den)>>]
      [] k = 3 -> [check |-> 3, text |-> "Unnaturally stationary - possible GPS spoofing",
                   args |-> <<>>]
      [] k = 4 -> [check |-> 4, text |-> "Excessive movement detected: {}km",
                   args |-> <<RoundHalfEven(m.total_movement, 100)>>]
      [] k = 5 -> [check |-> 5, text |-> "Poor GPS accuracy: {}m (may indicate indoor/spoofing)",
                   args |-> <<RoundHalfEven(m.avg_accuracy.num, m.avg_accuracy.den)>>]
      [] k = 6 -> [check |-> 6, text |-> "Impossible movement detected: {}km between pings",
                   args |-> <<RoundHalfEven(m.movements[FirstJump(m)], 100)>>]
      [] k = 7 -> [check |-> 7, text |-> "All pings have identical round coordinates - possible GPS spoofing",
                   args |-> <<>>]
      [] k = 8 -> [check |-> 8, text |-> "Suspiciously round coordinates detected",
                   args |-> <<>>]

\* risk_factors, spoofing_indicators and confidence_score before check 1.
NoFindings == [risk_factors |-> <<>>, spoofing_indicators |-> <<>>, confidence_score |-> 100]

\* ApplyCheck with check 4 assigning `confidence_score = 100 - 15` where the
\* code has `confidence_score -= 15`.
ApplyCheck_assign(f, k, m) ==
    IF ~CheckFires(k, m) THEN f
    ELSE [ risk_factors |->
             IF IsRiskCheck(k) THEN Append(f.risk_factors, Finding(k, m))
             ELSE f.risk_factors,
           spoofing_indicators |->
             IF IsRiskCheck(k) THEN f.spoofing_indicators
             ELSE Append(f.spoofing_indicators, Finding(k, m)),
           confidence_score |->
             IF k = 4 THEN 100 - Penalty(k) ELSE f.confidence_score - Penalty(k) ]

\* One check applied to the accumulated findings f.
ApplyCheck(f, k, m) ==
    IF ~CheckFires(k, m) THEN f
    ELSE [ risk_factors |->
             IF IsRiskCheck(k) THEN Append(f.risk_factors, Finding(k, m))
             ELSE f.risk_factors,
           spoofing_indicators |->
             IF IsRiskCheck(k) THEN f.spoofing_indicators
             ELSE Append(f.spoofing_indicators, Finding(k, m)),
           confidence_score |-> f.confidence_score - Penalty(k) ]

\* The checks of `order` applied one after the other, first to last.
RECURSIVE RunChecks(_, _, _)
RunChecks(f, order, m) ==
    IF order = <<>> THEN f
    ELSE RunChecks(ApplyCheck(f, Head(order), m), Tail(order), m)

\* CodeOrder with the blocks of check 1 and check 2 exchanged.
CodeOrder_zoneFirst == <<2, 1, 3, 4, 5, 6, 7, 8>>

\* The order in which verify_location evaluates the checks.
CodeOrder == <<1, 2, 3, 4, 5, 6, 7, 8>>

\* Clamp without the lower bound: min(100, confidence_score).
Clamp_noFloor(score) == IF score < 100 THEN score ELSE 100

\* confidence_score = max(0, min(100, confidence_score))   (line 525)
Clamp(score) ==
    LET capped == IF score < 100 THEN score ELSE 100
    IN  IF capped > 0 THEN capped ELSE 0

(***************************************************************************)
(* verify_location: classification (lines 527-543) and recommendation      *)
(***************************************************************************)
\* Classify with `confidence_score > 80` in the first rule.
Classify_strict80(confidence_score, spoofing_indicators) ==
    IF confidence_score > 80 /\ spoofing_indicators = <<>>
    THEN [status |-> "VERIFIED", verified |-> TRUE,
          message |-> "Location verified - Employee presence confirmed"]
    ELSE IF confidence_score >= 60 /\ Len(spoofing_indicators) <= 1
    THEN [status |-> "PARTIALLY_VERIFIED", verified |-> TRUE,
          message |-> "Location partially verified - Minor anomalies detected"]
    ELSE IF spoofing_indicators # <<>>
    THEN [status |-> "SPOOFING_SUSPECTED", verified |-> FALSE,
          message |-> "GPS spoofing suspected - Manual verification required"]
    ELSE [status |-> "VERIFICATION_FAILED", verified |-> FALSE,
          message |-> "Location verification failed - Employee may not be at work location"]

\* Classify with the second rule reduced to `confidence_score >= 60`.
Classify_anyIndicators(confidence_score, spoofing_indicators) ==
    IF confidence_score >= 80 /\ spoofing_indicators = <<>>
    THEN [status |-> "VERIFIED", verified |-> TRUE,
          message |-> "Location verified - Employee presence confirmed"]
    ELSE IF confidence_score >= 60
    THEN [status |-> "PARTIALLY_VERIFIED", verified |-> TRUE,
          message |-> "Location partially verified - Minor anomalies detected"]
    ELSE IF spoofing_indicators # <<>>
    THEN [status |-> "SPOOFING_SUSPECTED", verified |-> FALSE,
          message |-> "GPS spoofing suspected - Manual verification required"]
    ELSE [status |-> "VERIFICATION_FAILED", verified |-> FALSE,
          message |-> "Location verification failed - Employee may not be at work location"]

\* Classify with PARTIALLY_VERIFIED granted from a confidence of 50.
Classify_partialFrom50(confidence_score, spoofing_indicators) ==
    IF confidence_score >= 80 /\ spoofing_indicators = <<>>
    THEN [status |-> "VERIFIED", verified |-> TRUE,
          message |-> "Location verified - Employee presence confirmed"]
    ELSE IF confidence_score >= 50 /\ Len(spoofing_indicators) <= 1
    THEN [status |-> "PARTIALLY_VERIFIED", verified |-> TRUE,
          message |-> "Location partially verified - Minor anomalies detected"]
    ELSE IF spoofing_indicators # <<>>
    THEN [status |-> "SPOOFING_SUSPECTED", verified |-> FALSE,
          message |-> "GPS spoofing suspected - Manual verification required"]
    ELSE [status |-> "VERIFICATION_FAILED", verified |-> FALSE,
          message |-> "Location verification failed - Employee may not be at work location"]

\* Classify with the test of the third rule negated.
Classify_swapped(confidence_score, spoofing_indicators) ==
    IF confidence_score >= 80 /\ spoofing_indicators = <<>>
    THEN [status |-> "VERIFIED", verified |-> TRUE,
          message |-> "Location verified - Employee presence confirmed"]
    ELSE IF confidence_score >= 60 /\ Len(spoofing_indicators) <= 1
    THEN [status |-> "PARTIALLY_VERIFIED", verified |-> TRUE,
          message |-> "Location partially verified - Minor anomalies detected"]
    ELSE IF spoofing_indicators = <<>>
    THEN [status |-> "SPOOFING_SUSPECTED", verified |-> FALSE,
          message |-> "GPS spoofing suspected - Manual verification required"]
    ELSE [status |-> "VERIFICATION_FAILED", verified |-> FALSE,
          message |-> "Location verification failed - Employee may not be at work location"]

Classify(confidence_score, spoofing_indicators) ==
    IF confidence_score >= 80 /\ spoofing_indicators = <<>>
    THEN [status |-> "VERIFIED", verified |-> TRUE,
          message |-> "Location verified - Employee presence confirmed"]
    ELSE IF confidence_score >= 60 /\ Len(spoofing_indicators) <= 1
    THEN [status |-> "PARTIALLY_VERIFIED", verified |-> TRUE,
          message |-> "Location partially verified - Minor anomalies detected"]
    ELSE IF spoofing_indicators # <<>>
    THEN [status |-> "SPOOFING_SUSPECTED", verified |-> FALSE,
          message |-> "GPS spoofing suspected - Manual verification required"]
    ELSE [status |-> "VERIFICATION_FAILED", verified |-> FALSE,
          message |-> "Location verification failed - Employee may not be at work location"]

\* get_location_recommendation escalating a PARTIALLY_VERIFIED result that
\* carries a spoofing indicator.
get_location_recommendation_byFindings(status, risk_factors, spoofing_indicators) ==
    IF status = "VERIFIED"
    THEN "No action required - Employee location verified"
    ELSE IF status = "PARTIALLY_VERIFIED" /\ spoofing_indicators = <<>>
    THEN "Monitor employee's future check-ins for patterns"
    ELSE IF status \in {"PARTIALLY_VERIFIED", "SPOOFING_SUSPECTED"}
    THEN "URGENT: Conduct physical verification. Consider disciplinary action if spoofing confirmed."
    ELSE "Require employee to check-in again with better GPS signal or use biometric verification"

get_location_recommendation(status, risk_factors, spoofing_indicators) ==
    IF status = "VERIFIED"
    THEN "No action required - Employee location verified"
    ELSE IF status = "PARTIALLY_VERIFIED"
    THEN "Monitor employee's future check-ins for patterns"
    ELSE IF status = "SPOOFING_SUSPECTED"
    THEN "URGENT: Conduct physical verification. Consider disciplinary action if spoofing confirmed."
    ELSE "Require employee to check-in again with better GPS signal or use biometric verification"

\* The locals of verify_location when it reaches the AI call (line 545).
Evaluate(request) ==
    LET m == Metrics(request)
        f == RunChecks(NoFindings, CodeOrder, m)
        score == Clamp(f.confidence_score)
        c == Classify(score, f.spoofing_indicators)
    IN  [ metrics |-> m,
          risk_factors |-> f.risk_factors,
          spoofing_indicators |-> f.spoofing_indicators,
          confidence_score |-> score,
          status |-> c.status,
          verified |-> c.verified,
          message |-> c.message ]

(***************************************************************************)
(* The AI explanation (lines 69-92 and 545-570)                            *)
(***************************************************************************)
Whitespace == {" ", "\n"}

\* str.strip() on a text held as a sequence of tokens.
RECURSIVE LStrip(_)
LStrip(t) == IF t # <<>> /\ Head(t) \in Whitespace THEN LStrip(Tail(t)) ELSE t

RECURSIVE RStrip(_)
RStrip(t) == IF t # <<>> /\ t[Len(t)] \in Whitespace
             THEN RStrip(SubSeq(t, 1, Len(t) - 1)) ELSE t

Strip(t) == RStrip(LStrip(t))

\* What the OpenRouter endpoint may answer: a status code and the content of
\* the first choice (a text, or null).
OpenRouterReplies ==
    { [status_code |-> 200, content |-> Some(<<"Likely", " ", "present.">>)],
      [status_code |-> 200, content |-> Some(<<" ", "Possible", " ", "spoofing.", "\n">>)],
      [status_code |-> 200, content |-> None],
      [status_code |-> 429, content |-> None] }

\* call_openrouter: the content on status 200, an exception otherwise.
call_openrouter(reply) ==
    IF reply.status_code = 200
    THEN [raised |-> FALSE, value |-> reply.content]
    ELSE [raised |-> TRUE, value |-> None]

\* The try block of lines 547-570 completes: ai_response.strip() succeeded.
AiSucceeds(reply) ==
    /\ ~call_openrouter(reply).raised
    /\ ~call_openrouter(reply).value.isNone

(***************************************************************************)
(* The dictionaries verify_location returns                                *)
(***************************************************************************)
\* The early return reporting a failed verification instead of NO_DATA.
NoDataResult_failed ==
    [ verified |-> FALSE,
      confidence |-> 0,
      status |-> "VERIFICATION_FAILED",
      message |-> "No location data provided",
      risk_factors |-> << [check |-> 0, text |-> "No location pings received", args |-> <<>>] >>,
      recommendation |-> "Employee must enable location services" ]

\* Lines 423-430.
NoDataResult ==
    [ verified |-> FALSE,
      confidence |-> 0,
      status |-> "NO_DATA",
      message |-> "No location data provided",
      risk_factors |-> << [check |-> 0, text |-> "No location pings received", args |-> <<>>] >>,
      recommendation |-> "Employee must enable location services" ]

\* The "metrics" entry, lines 579-588: round(x, 1) in tenths, round(x, 3)
\* of a distance in metres.
MetricsDict(request, m) ==
    [ total_pings |-> Len(request.pings),
      pings_in_zone |-> m.pings_in_zone,
      zone_percentage |-> RoundHalfEven(m.zone_percentage.num * 10, m.zone_percentage.den),
      avg_distance_km |-> RoundHalfEven(m.avg_distance.num, m.avg_distance.den * 10),
      max_distance_km |-> RoundHalfEven(m.max_distance, 10),
      total_movement_km |-> RoundHalfEven(m.total_movement, 10),
      unique_locations |-> m.unique_coords,
      avg_gps_accuracy_m |-> RoundHalfEven(m.avg_accuracy.num * 10, m.avg_accuracy.den) ]

\* Lines 572-593, from the locals fr and the value of ai_analysis.
VerdictResult(request, fr, ai_analysis) ==
    [ verified |-> fr.verified,
      confidence |-> fr.confidence_score,
      status |-> fr.status,
      message |-> fr.message,
      employee_id |-> request.employee_id,
      employee_name |-> request.employee_name,
      metrics |-> MetricsDict(request, fr.metrics),
      risk_factors |-> fr.risk_factors,
      spoofing_indicators |-> fr.spoofing_indicators,
      ai_analysis |-> ai_analysis,
      recommendation |->
          get_location_recommendation(fr.status, fr.risk_factors, fr.spoofing_indicators) ]

(***************************************************************************)
(* One call of verify_location                                             *)
(***************************************************************************)
VARIABLES
    request,    \* the parsed LocationVerificationRequest
    pc,         \* "called", "awaiting_ai", "done" (returned) or "raised"
    frame,      \* the locals at the AI call, None before
    ai_reply,   \* what OpenRouter answered to this call, None before
    response    \* None, then what the call returned or raised

vars == <<request, pc, frame, ai_reply, response>>

Init ==
    /\ request \in LocationVerificationRequest
    /\ pc = "called"
    /\ frame = None
    /\ ai_reply = None
    /\ response = None

\* `if not pings: return {...}`
ReturnNoData ==
    /\ pc = "called"
    /\ request.pings = <<>>
    /\ response' = [kind |-> "return", body |-> NoDataResult]
    /\ pc' = "done"
    /\ UNCHANGED <<request, frame, ai_reply>>

\* The metrics loop raises ValueError out of verify_location.
RaiseDomainError ==
    /\ pc = "called"
    /\ request.pings # <<>>
    /\ LoopRaises(request)
    /\ response' = [kind |-> "raise", exc |-> "ValueError"]
    /\ pc' = "raised"
    /\ UNCHANGED <<request, frame, ai_reply>>

\* Lines 432-543: metrics, checks and classification, up to the await.
ComputeVerdict ==
    /\ pc = "called"
    /\ request.pings # <<>>
    /\ ~LoopRaises(request)
    /\ frame' = Evaluate(request)
    /\ pc' = "awaiting_ai"
    /\ UNCHANGED <<request, ai_reply, response>>

\* call_openrouter returns a text: ai_analysis is the stripped text.
AiResponds ==
    /\ pc = "awaiting_ai"
    /\ \E reply \in OpenRouterReplies :
          /\ AiSucceeds(reply)
          /\ ai_reply' = Some(reply)
          /\ response' = [kind |-> "return",
                          body |-> VerdictResult(request, frame,
                                      Some(Strip(call_openrouter(reply).value.val)))]
    /\ pc' = "done"
    /\ UNCHANGED <<request, frame>>

\* AiFails without the `except Exception`: the error of the AI call leaves
\* verify_location.
AiFails_propagates ==
    /\ pc = "awaiting_ai"
    /\ \E reply \in OpenRouterReplies :
          /\ ~AiSucceeds(reply)
          /\ ai_reply' = Some(reply)
          /\ response' = [kind |-> "raise", exc |-> "Exception"]
    /\ pc' = "raised"
    /\ UNCHANGED <<request, frame>>

\* The try block raises (HTTP error, null content): `except Exception`
\* prints and ai_analysis stays None.
AiFails ==
    /\ pc = "awaiting_ai"
    /\ \E reply \in OpenRouterReplies :
          /\ ~AiSucceeds(reply)
          /\ ai_reply' = Some(reply)
          /\ response' = [kind |-> "return", body |-> VerdictResult(request, frame, None)]
    /\ pc' = "done"
    /\ UNCHANGED <<request, frame>>

Next ==
    \/ ReturnNoData
    \/ RaiseDomainError
    \/ ComputeVerdict
    \/ AiResponds
    \/ AiFails

Spec == Init /\ [][Next]_vars

(***************************************************************************)
(* Several calls of verify_location on one event loop                      *)
(*                                                                         *)
(* Under SpecConcurrent every variable is a function of the task: pc[t],   *)
(* frame[t], ... are what pc, frame, ... are for the single call of Spec.  *)
(* A coroutine runs without interruption from its call to its await, and   *)
(* from the completion of the await to its return; other tasks run while   *)
(* it is suspended in call_openrouter.                                     *)
(***************************************************************************)
\* Number of requests the event loop serves at the same time.
MaxTasks == 2

Tasks == 1..MaxTasks

\* Ping lists of the concurrent requests: none, one fix at the office, two
\* fixes with a poor accuracy, four identical round fixes, and the two
\* antipodal fixes on which haversine_distance raises.
ConcurrentPings ==
    { <<>>,
      <<Ping(1, Some(12))>>,
      <<Ping(4, Some(150)), Ping(2, Some(9))>>,
      <<Ping(3, Some(8)), Ping(3, Some(8)), Ping(3, Some(8)), Ping(3, Some(8))>>,
      <<Ping(5, None), Ping(6, Some(0))>> }

ConcurrentRequests ==
    { [employee_id |-> h.id, employee_name |-> h.name,
       office_lat |-> Points[1][1], office_lng |-> Points[1][2],
       office_radius_km |-> h.radius, pings |-> ps] :
         h \in {g \in RequestHeaders : g.radius \in {3699, 5000}}, ps \in ConcurrentPings }

InitConcurrent ==
    /\ request \in [Tasks -> ConcurrentRequests]
    /\ pc = [t \in Tasks |-> "called"]
    /\ frame = [t \in Tasks |-> None]
    /\ ai_reply = [t \in Tasks |-> None]
    /\ response = [t \in Tasks |-> None]

\* `if not pings: return {...}` in task t.
TaskReturnNoData(t) ==
    /\ pc[t] = "called"
    /\ request[t].pings = <<>>
    /\ response' = [response EXCEPT ![t] = [kind |-> "return", body |-> NoDataResult]]
    /\ pc' = [pc EXCEPT ![t] = "done"]
    /\ UNCHANGED <<request, frame, ai_reply>>

\* The metrics loop of task t raises; the exception ends that task only.
TaskRaiseDomainError(t) ==
    /\ pc[t] = "called"
    /\ request[t].pings # <<>>
    /\ LoopRaises(request[t])
    /\ response' = [response EXCEPT ![t] = [kind |-> "raise", exc |-> "ValueError"]]
    /\ pc' = [pc EXCEPT ![t] = "raised"]
    /\ UNCHANGED <<request, frame, ai_reply>>

\* TaskComputeVerdict with risk_factors, spoofing_indicators, confidence_score
\* and the metrics held in module-level names instead of locals: the last
\* task to compute overwrites what every suspended task will return.
TaskComputeVerdict_global(t) ==
    /\ pc[t] = "called"
    /\ request[t].pings # <<>>
    /\ ~LoopRaises(request[t])
    /\ frame' = [u \in Tasks |-> Evaluate(request[t])]
    /\ pc' = [pc EXCEPT ![t] = "awaiting_ai"]
    /\ UNCHANGED <<request, ai_reply, response>>

\* Lines 432-543 in task t: every name assigned is a local of the coroutine.
TaskComputeVerdict(t) ==
    /\ pc[t] = "called"
    /\ request[t].pings # <<>>
    /\ ~LoopRaises(request[t])
    /\ frame' = [frame EXCEPT ![t] = Evaluate(request[t])]
    /\ pc' = [pc EXCEPT ![t] = "awaiting_ai"]
    /\ UNCHANGED <<request, ai_reply, response>>

\* The AsyncClient that call_openrouter opened for task t gets its answer,
\* a text; task t resumes with its own locals and returns.
TaskAiResponds(t) ==
    /\ pc[t] = "awaiting_ai"
    /\ \E reply \in OpenRouterReplies :
          /\ AiSucceeds(reply)
          /\ ai_reply' = [ai_reply EXCEPT ![t] = Some(reply)]
          /\ response' = [response EXCEPT ![t] =
                 [kind |-> "return",
                  body |-> VerdictResult(request[t], frame[t],
                              Some(Strip(call_openrouter(reply).value.val)))]]
    /\ pc' = [pc EXCEPT ![t] = "done"]
    /\ UNCHANGED <<request, frame>>

\* The try block of task t raises; `except Exception` prints and task t
\* returns with ai_analysis None.
TaskAiFails(t) ==
    /\ pc[t] = "awaiting_ai"
    /\ \E reply \in OpenRouterReplies :
          /\ ~AiSucceeds(reply)
          /\ ai_reply' = [ai_reply EXCEPT ![t] = Some(reply)]
          /\ response' = [response EXCEPT ![t] =
                 [kind |-> "return", body |-> VerdictResult(request[t], frame[t], None)]]
    /\ pc' = [pc EXCEPT ![t] = "done"]
    /\ UNCHANGED <<request, frame>>

NextConcurrent ==
    \E t \in Tasks :
        \/ TaskReturnNoData(t)
        \/ TaskRaiseDomainError(t)
        \/ TaskComputeVerdict(t)
        \/ TaskAiResponds(t)
        \/ TaskAiFails(t)

SpecConcurrent == InitConcurrent /\ [][NextConcurrent]_vars

(***************************************************************************)
(* Properties                                                              *)
(***************************************************************************)
\* verify_location returned a dictionary.
Returned == pc = "done"

\* verify_location returned the verdict of a non-empty ping list.
ReturnedVerdict == pc = "done" /\ request.pings # <<>>

\* A latitude outside [-90, 90], a longitude outside [-180, 180] or a
\* negative office radius.
InvalidGeometry(req) ==
    \/ \E i \in 1..Len(req.pings) :
          \/ req.pings[i].lat < -90000000 \/ req.pings[i].lat > 90000000
          \/ req.pings[i].lng < -180000000 \/ req.pings[i].lng > 180000000
    \/ req.office_radius_km < 0

\* The checks whose condition holds on the locals m.
Fired(m) == {k \in 1..8 : CheckFires(k, m)}

\* The penalties of checks 1..8 as the specification tabulates them.
PenaltyTable == <<30, 20, 15, 15, 10, 20, 25, 15>>

RECURSIVE SumOver(_, _)
SumOver(S, t) ==
    IF S = {} THEN 0
    ELSE LET k == CHOOSE x \in S : TRUE IN t[k] + SumOver(S \ {k}, t)

\* C1: a request with an empty ping list returns (it does not raise) status
\* NO_DATA with verified = false and confidence = 0; a request with at least
\* one ping never returns NO_DATA.
C1_EmptyIsNoData ==
    /\ request.pings = <<>> =>
          /\ pc # "raised"
          /\ Returned => /\ response.kind = "return"
                         /\ response.body.status = "NO_DATA"
                         /\ response.body.verified = FALSE
                         /\ response.body.confidence = 0
    /\ ReturnedVerdict => response.body.status # "NO_DATA"

C1_Witness ==
    /\ Returned
    /\ request.pings = <<>>
    /\ response.body.status = "NO_DATA"

\* C2: every returned confidence lies in 0..100; when the penalties of the
\* checks that fire sum to more than 100 the confidence is 0.
C2_ConfidenceClamped ==
    /\ Returned => response.body.confidence \in 0..100
    /\ (ReturnedVerdict /\ SumOver(Fired(frame.metrics), PenaltyTable) > 100)
          => response.body.confidence = 0

C2_Witness ==
    /\ ReturnedVerdict
    /\ ~InvalidGeometry(request)
    /\ SumOver(Fired(frame.metrics), PenaltyTable) > 100
    /\ response.body.confidence = 0

\* C3: for a non-empty ping list the status is VERIFIED, with verified =
\* true, exactly when the confidence is >= 80 and there is no spoofing
\* indicator.
C3_VerifiedIff ==
    ReturnedVerdict =>
        /\ response.body.status = "VERIFIED"
              <=> (/\ response.body.confidence >= 80
                   /\ response.body.spoofing_indicators = <<>>)
        /\ response.body.status = "VERIFIED" => response.body.verified = TRUE

C3_Witness ==
    /\ ReturnedVerdict
    /\ response.body.status = "VERIFIED"
    /\ response.body.confidence = 80

\* C4: for a non-empty ping list the status is PARTIALLY_VERIFIED, with
\* verified = true, exactly when the VERIFIED rule does not match, the
\* confidence is >= 60 and there is at most one spoofing indicator.
C4_PartiallyVerifiedIff ==
    ReturnedVerdict =>
        LET b == response.body
            verifiedRule == b.confidence >= 80 /\ b.spoofing_indicators = <<>>
        IN  /\ b.status = "PARTIALLY_VERIFIED"
                  <=> (/\ ~verifiedRule
                       /\ b.confidence >= 60
                       /\ Len(b.spoofing_indicators) <= 1)
            /\ b.status = "PARTIALLY_VERIFIED" => b.verified = TRUE

C4_Witness ==
    /\ ReturnedVerdict
    /\ response.body.status = "PARTIALLY_VERIFIED"
    /\ Len(response.body.spoofing_indicators) = 1

\* C5: when neither the VERIFIED nor the PARTIALLY_VERIFIED rule matches,
\* the status is SPOOFING_SUSPECTED if a spoofing indicator is present and
\* VERIFICATION_FAILED if there is none, and verified = false.
C5_FailureStatuses ==
    ReturnedVerdict =>
        LET b == response.body
            verifiedRule == b.confidence >= 80 /\ b.spoofing_indicators = <<>>
            partialRule == b.confidence >= 60 /\ Len(b.spoofing_indicators) <= 1
        IN  (~verifiedRule /\ ~partialRule) =>
                /\ b.verified = FALSE
                /\ b.spoofing_indicators # <<>> => b.status = "SPOOFING_SUSPECTED"
                /\ b.spoofing_indicators = <<>> => b.status = "VERIFICATION_FAILED"

C5_Witness ==
    /\ ReturnedVerdict
    /\ response.body.status = "SPOOFING_SUSPECTED"
    /\ response.body.confidence >= 60
    /\ Len(response.body.spoofing_indicators) >= 2

\* Orders of evaluation other than the code's: the reverse order and the
\* seven exchanges of two neighbouring checks (the exchanges generate every
\* permutation).
Exchange(i) == [j \in 1..8 |-> IF j = i THEN i + 1 ELSE IF j = i + 1 THEN i ELSE j]
OtherOrders == {[j \in 1..8 |-> 9 - j]} \cup {Exchange(i) : i \in 1..7}

SeqRange(s) == {s[i] : i \in 1..Len(s)}

\* C6: the confidence is max(0, 100 - S), S the sum of the tabulated
\* penalties of the checks whose condition holds; another order of the
\* checks gives the same confidence and the same findings, possibly in
\* another order.
C6_AdditivePenalties ==
    /\ ReturnedVerdict =>
          LET S == SumOver(Fired(frame.metrics), PenaltyTable)
          IN  response.body.confidence = (IF 100 - S > 0 THEN 100 - S ELSE 0)
    /\ pc = "awaiting_ai" =>
          \A order \in OtherOrders :
              LET g == RunChecks(NoFindings, order, frame.metrics)
              IN  /\ Clamp(g.confidence_score) = frame.confidence_score
                  /\ Len(g.risk_factors) = Len(frame.risk_factors)
                  /\ SeqRange(g.risk_factors) = SeqRange(frame.risk_factors)
                  /\ Len(g.spoofing_indicators) = Len(frame.spoofing_indicators)
                  /\ SeqRange(g.spoofing_indicators) = SeqRange(frame.spoofing_indicators)

C6_Witness ==
    /\ ReturnedVerdict
    /\ ~InvalidGeometry(request)
    /\ Cardinality(Fired(frame.metrics)) >= 4
    /\ 4 \in Fired(frame.metrics)
    /\ \E order \in OtherOrders :
          RunChecks(NoFindings, order, frame.metrics).risk_factors
              # response.body.risk_factors

\* The fields of a result that make up the verdict.
Verdict(b) ==
    [ verified |-> b.verified, confidence |-> b.confidence, status |-> b.status,
      message |-> b.message, metrics |-> b.metrics, risk_factors |-> b.risk_factors,
      spoofing_indicators |-> b.spoofing_indicators,
      recommendation |-> b.recommendation ]

\* C7: whatever OpenRouter answers, the call returns, and the verdict is the
\* one returned when the AI call raises; when call_openrouter raises,
\* ai_analysis is None.
C7_VerdictIndependentOfAI ==
    /\ ~ai_reply.isNone => /\ pc = "done"
                           /\ response.kind = "return"
    /\ (ReturnedVerdict /\ ~ai_reply.isNone) =>
          /\ Verdict(response.body) = Verdict(VerdictResult(request, frame, None))
          /\ call_openrouter(ai_reply.val).raised => response.body.ai_analysis = None

C7_Witness ==
    /\ ReturnedVerdict
    /\ ~ai_reply.isNone
    /\ call_openrouter(ai_reply.val).raised
    /\ response.body.ai_analysis = None
    /\ response.body.status = "VERIFIED"

\* C8: a request with invalid geometry is rejected: no verdict is computed
\* from it and none is returned.
C8_InvalidGeometryRejected ==
    InvalidGeometry(request) => /\ frame = None
                                /\ pc \notin {"awaiting_ai", "done"}

\* C9: every result, the one for an empty ping list included, carries the
\* request's employee id and employee name.
C9_IdentityInEveryResult ==
    Returned =>
        /\ {"employee_id", "employee_name"} \subseteq DOMAIN response.body
        /\ response.body.employee_id = request.employee_id
        /\ response.body.employee_name = request.employee_name

\* C10: every result, for every request, has a metrics object whose
\* total_pings is the number of pings of the request and whose
\* pings_in_zone is at most total_pings.
C10_MetricsInEveryResult ==
    Returned =>
        /\ "metrics" \in DOMAIN response.body
        /\ response.body.metrics.total_pings = Len(request.pings)
        /\ response.body.metrics.pings_in_zone <= response.body.metrics.total_pings

\* The five statuses a result can carry.
Statuses ==
    {"NO_DATA", "VERIFIED", "PARTIALLY_VERIFIED", "SPOOFING_SUSPECTED",
     "VERIFICATION_FAILED"}

\* C11: a call on a request with valid geometry (coordinates in range, any
\* number of pings) never ends by raising, and what it returns has one of
\* the five statuses.
C11_ValidInputReturnsStatus ==
    ~InvalidGeometry(request) =>
        /\ pc # "raised"
        /\ Returned => /\ response.kind = "return"
                       /\ response.body.status \in Statuses

\* What one call on req, processed alone, ends with when OpenRouter answers
\* reply to it.
AloneOutcome(req, reply) ==
    IF req.pings = <<>> THEN [kind |-> "return", body |-> NoDataResult]
    ELSE IF LoopRaises(req) THEN [kind |-> "raise", exc |-> "ValueError"]
    ELSE [kind |-> "return",
          body |-> VerdictResult(req, Evaluate(req),
                      IF AiSucceeds(reply.val)
                      THEN Some(Strip(call_openrouter(reply.val).value.val))
                      ELSE None)]

\* C12: with several requests in progress on the event loop, what a task
\* holds was written by that task only (nothing before it ran, its own
\* verdict while it awaits the AI call), and what it ends with is what the
\* same request with the same AI answer ends with when processed alone.
C12_ConcurrentEqualsAlone ==
    \A t \in Tasks :
        /\ pc[t] = "called" =>
              /\ frame[t] = None
              /\ ai_reply[t] = None
              /\ response[t] = None
        /\ pc[t] = "awaiting_ai" =>
              /\ frame[t] = Evaluate(request[t])
              /\ ai_reply[t] = None
              /\ response[t] = None
        /\ pc[t] \in {"done", "raised"} =>
              response[t] = AloneOutcome(request[t], ai_reply[t])

\* Task 2 ran from call to return while task 1 was suspended in its AI
\* call, and the two verdicts differ.
C12_Witness ==
    /\ pc[1] = "awaiting_ai"
    /\ pc[2] = "done"
    /\ request[2].pings # <<>>
    /\ response[2].body.status # frame[1].status

\* The presence scenario of C13 on the locals m: radius 0.5 km, every ping
\* within 0.1 km of the office, no ping exact at one decimal, every
\* accuracy between 5 and 20 m, total movement below 0.5 km.
NaturalPresence(m) ==
    /\ m.office_radius_km = 5000
    /\ m.max_distance <= 1000
    /\ \A i \in 1..Len(m.pings) :
          /\ ~IsRound(m.pings[i], 1)
          /\ ~m.pings[i].accuracy.isNone
          /\ m.pings[i].accuracy.val \in 5..20
    /\ m.total_movement < 5000

\* The result is VERIFIED with confidence >= 80 and no spoofing indicator.
VerifiedClean(b) ==
    /\ b.status = "VERIFIED"
    /\ b.confidence >= 80
    /\ b.spoofing_indicators = <<>>

\* C13 as stated: every ping sequence of the presence scenario is VERIFIED
\* with confidence >= 80 and no spoofing indicator.
C13_PresenceVerified ==
    (ReturnedVerdict /\ NaturalPresence(frame.metrics)) => VerifiedClean(response.body)

\* C13 amended: the ping sequences of the presence scenario that have fewer
\* than 4 pings, or that move at least 0.001 km in total over at least two
\* distinct coordinates (at 5 decimals), are VERIFIED with confidence >= 80
\* and no spoofing indicator.
C13_MovingPresenceVerified ==
    (/\ ReturnedVerdict
     /\ NaturalPresence(frame.metrics)
     /\ \/ frame.metrics.n_pings < 4
        \/ /\ frame.metrics.total_movement >= 10
           /\ frame.metrics.unique_coords >= 2)
        => VerifiedClean(response.body)

C13_Witness ==
    /\ ReturnedVerdict
    /\ NaturalPresence(frame.metrics)
    /\ frame.metrics.n_pings >= 4
    /\ frame.metrics.total_movement >= 10
    /\ frame.metrics.unique_coords >= 2
    /\ VerifiedClean(response.body)

\* Every ping of the request has the coordinates of the first one.
SameCoordinates(pings) ==
    \A i \in 1..Len(pings) : /\ pings[i].lat = pings[1].lat
                             /\ pings[i].lng = pings[1].lng

\* The indicators of a result that check k appended.
IndicatorsOf(k, b) ==
    {i \in 1..Len(b.spoofing_indicators) : b.spoofing_indicators[i].check = k}

\* C14: 4 or more pings at the same coordinates, latitude and longitude
\* both exact at one decimal: check 7 and check 8 both fire (each appends its
\* indicator) and the status is SPOOFING_SUSPECTED.
C14_IdenticalRoundPings ==
    (/\ ReturnedVerdict
     /\ Len(request.pings) >= 4
     /\ SameCoordinates(request.pings)
     /\ IsRound(request.pings[1], 1))
        => /\ {7, 8} \subseteq Fired(frame.metrics)
           /\ IndicatorsOf(7, response.body) # {}
           /\ IndicatorsOf(8, response.body) # {}
           /\ response.body.status = "SPOOFING_SUSPECTED"

C14_Witness ==
    /\ ReturnedVerdict
    /\ Len(request.pings) >= 4
    /\ SameCoordinates(request.pings)
    /\ IsRound(request.pings[1], 1)
    /\ IndicatorsOf(7, response.body) # {}
    /\ IndicatorsOf(8, response.body) # {}
    /\ response.body.status = "SPOOFING_SUSPECTED"

\* The indices of the movements above 2 km, in the code's list of movements.
Jumps(m) == {i \in 1..Len(m.movements) : m.movements[i] > 20000}

\* C15: however many movements exceed 2 km, the result carries at most one
\* impossible-movement indicator (one exactly when some movement exceeds
\* 2 km), 20 is subtracted once, and the indicator reports the first
\* movement in input order that exceeds 2 km.
C15_ImpossibleMovementOnce ==
    ReturnedVerdict =>
        LET m == frame.metrics
            b == response.body
            others == SumOver(Fired(m) \ {6}, PenaltyTable)
            once == IF Jumps(m) # {} THEN 20 ELSE 0
        IN  /\ Cardinality(IndicatorsOf(6, b)) = (IF Jumps(m) # {} THEN 1 ELSE 0)
            /\ b.confidence = Clamp(100 - others - once)
            /\ \A x \in IndicatorsOf(6, b) :
                  \E i \in Jumps(m) :
                      /\ \A j \in Jumps(m) : i <= j
                      /\ b.spoofing_indicators[x].args
                            = <<RoundHalfEven(m.movements[i], 100)>>

\* Two movements above 2 km that are reported differently, after a first
\* movement below 2 km; one indicator, 20 subtracted once.
C15_Witness ==
    /\ ReturnedVerdict
    /\ ~InvalidGeometry(request)
    /\ 1 \notin Jumps(frame.metrics)
    /\ \E i, j \in Jumps(frame.metrics) :
          /\ i < j
          /\ RoundHalfEven(frame.metrics.movements[i], 100)
                # RoundHalfEven(frame.metrics.movements[j], 100)
    /\ Cardinality(IndicatorsOf(6, response.body)) = 1
    /\ Fired(frame.metrics) = {1, 2, 4, 6}
    /\ response.body.confidence = 15

\* The findings of a result that check k appended, in either list.
FindingsOf(k, b) ==
    {i \in 1..Len(b.risk_factors) : b.risk_factors[i].check = k}
        \cup IndicatorsOf(k, b)

\* C16: a call with exactly one ping computes a verdict: its movement list
\* is empty, its total movement is 0 and none of checks 3, 4 and 6 fires;
\* what it returns is a verdict (not NO_DATA) without a finding of these
\* checks, and when the ping is at the office coordinates and the radius is
\* 0.5 km the zone percentage is 100.
C16_SinglePing ==
    (Len(request.pings) = 1 /\ pc \in {"awaiting_ai", "done"}) =>
        /\ frame.metrics.movements = <<>>
        /\ frame.metrics.total_movement = 0
        /\ Fired(frame.metrics) \cap {3, 4, 6} = {}
        /\ pc = "done" =>
              /\ response.kind = "return"
              /\ response.body.status \in Statuses \ {"NO_DATA"}
              /\ response.body.metrics.total_movement_km = 0
              /\ \A k \in {3, 4, 6} : FindingsOf(k, response.body) = {}
              /\ (/\ request.pings[1].lat = request.office_lat
                  /\ request.pings[1].lng = request.office_lng
                  /\ request.office_radius_km = 5000)
                    => /\ frame.metrics.zone_percentage = Frac(100, 1)
                       /\ response.body.metrics.zone_percentage = 1000
                       /\ response.body.metrics.pings_in_zone = 1

C16_Witness ==
    /\ ReturnedVerdict
    /\ Len(request.pings) = 1
    /\ request.pings[1].lat = request.office_lat
    /\ request.pings[1].lng = request.office_lng
    /\ request.office_radius_km = 5000
    /\ response.body.metrics.zone_percentage = 1000
    /\ response.body.metrics.total_movement_km = 0
    /\ response.body.status = "VERIFIED"

\* The accuracies of the pings that carry one (accuracy is not None).
NonNullAccuracies(req) ==
    LET kept == SelectSeq(req.pings, LAMBDA p : ~p.accuracy.isNone)
    IN  [i \in 1..Len(kept) |-> kept[i].accuracy.val]

\* C17: the average accuracy is the mean of the accuracies that are not
\* None, an accuracy of 0 included, and 50 when there is none; check 5
\* appends its indicator exactly when that mean exceeds 100, so never for a
\* request without any accuracy.
C17_MeanOfNonNullAccuracies ==
    ReturnedVerdict =>
        LET a == NonNullAccuracies(request)
            mean == IF a = <<>> THEN Frac(50, 1) ELSE Frac(SumSeq(a), Len(a))
            avg == frame.metrics.avg_accuracy
        IN  /\ avg.num * mean.den = mean.num * avg.den
            /\ IndicatorsOf(5, response.body) # {} <=> FracGT(mean, 100)
            /\ a = <<>> => IndicatorsOf(5, response.body) = {}

\* 100 less the penalties of the checks of `fired`, clamped.
ConfidenceOf(fired) == Clamp(100 - SumOver(fired, PenaltyTable))

\* C18: check 1 appends its finding exactly when the sum of the distances
\* from the office exceeds 2 * office_radius_km * (number of pings), that
\* is when the average distance is strictly above twice the radius; the
\* finding is one risk factor, never a spoofing indicator, and it costs 30.
C18_FarFromOffice ==
    ReturnedVerdict =>
        LET d == distances_from_office(request)
            b == response.body
            far == SumSeq(d) > 2 * request.office_radius_km * Len(d)
            risks == {i \in 1..Len(b.risk_factors) : b.risk_factors[i].check = 1}
        IN  /\ Cardinality(risks) = (IF far THEN 1 ELSE 0)
            /\ IndicatorsOf(1, b) = {}
            /\ far => b.confidence = Clamp(ConfidenceOf(Fired(frame.metrics) \ {1}) - 30)
            /\ ~far => b.confidence = ConfidenceOf(Fired(frame.metrics) \ {1})

\* The average distance equals twice a positive radius, and check 1 did not
\* fire.
C18_Witness ==
    /\ ReturnedVerdict
    /\ request.office_radius_km > 0
    /\ SumSeq(distances_from_office(request))
          = 2 * request.office_radius_km * Len(request.pings)
    /\ FindingsOf(1, response.body) = {}

\* The pings whose distance from the office is at most the radius.
InZone(req) ==
    {i \in 1..Len(req.pings) : distances_from_office(req)[i] <= req.office_radius_km}

\* C19: pings_in_zone counts the pings at a distance <= office_radius_km,
\* and check 2 appends its finding exactly when
\* pings_in_zone * 100 < 70 * total_pings; the finding is one risk factor
\* and it costs 20.
C19_ZonePresence ==
    ReturnedVerdict =>
        LET b == response.body
            in_zone == Cardinality(InZone(request))
            low == in_zone * 100 < 70 * Len(request.pings)
            risks == {i \in 1..Len(b.risk_factors) : b.risk_factors[i].check = 2}
        IN  /\ b.metrics.pings_in_zone = in_zone
            /\ Cardinality(risks) = (IF low THEN 1 ELSE 0)
            /\ IndicatorsOf(2, b) = {}
            /\ b.confidence = Clamp(100 - (IF low THEN 20 ELSE 0)
                                        - SumOver(Fired(frame.metrics) \ {2}, PenaltyTable))

\* Exactly 70% of the pings are in zone, each of them at a distance equal
\* to the radius, and check 2 did not fire.
C19_Witness ==
    /\ ReturnedVerdict
    /\ Cardinality(InZone(request)) * 100 = 70 * Len(request.pings)
    /\ \A i \in InZone(request) :
          distances_from_office(request)[i] = request.office_radius_km
    /\ response.body.metrics.pings_in_zone * 10 = 7 * response.body.metrics.total_pings
    /\ FindingsOf(2, response.body) = {}

\* C20: check 3 appends its indicator exactly when the request has 4 or
\* more pings and the movements between consecutive pings sum to less than
\* 0.001 km; the indicator is one spoofing indicator and it costs 15.  With
\* 3 pings or fewer there is none, even when the pings are identical.
C20_UnnaturallyStationary ==
    ReturnedVerdict =>
        LET b == response.body
            total == SumSeq(movements(request))
            still == Len(request.pings) >= 4 /\ total < 10
            risks == {i \in 1..Len(b.risk_factors) : b.risk_factors[i].check = 3}
        IN  /\ Cardinality(IndicatorsOf(3, b)) = (IF still THEN 1 ELSE 0)
            /\ risks = {}
            /\ b.confidence = Clamp(100 - (IF still THEN 15 ELSE 0)
                                        - SumOver(Fired(frame.metrics) \ {3}, PenaltyTable))
            /\ Len(request.pings) <= 3 => IndicatorsOf(3, b) = {}

\* Four or more pings that are not all at the same place and move less
\* than 0.001 km in total: check 3 fired.
C20_Witness ==
    /\ ReturnedVerdict
    /\ Len(request.pings) >= 4
    /\ ~SameCoordinates(request.pings)
    /\ SumSeq(movements(request)) \in 1..9
    /\ Cardinality(IndicatorsOf(3, response.body)) = 1

\* C21: check 7 appends its indicator exactly when the pings have one
\* distinct coordinate pair after rounding to 5 decimals, there are 4 or
\* more pings, and the first ping's latitude and longitude are exact at 3
\* decimals; it is one spoofing indicator and costs 25.  With fewer than 4
\* pings there is none.
C21_IdenticalCoordinates ==
    ReturnedVerdict =>
        LET b == response.body
            ps == request.pings
            rounded == { <<RoundCoord(ps[i].lat, 5), RoundCoord(ps[i].lng, 5)>> :
                            i \in 1..Len(ps) }
            identical == /\ Cardinality(rounded) = 1
                         /\ Len(ps) >= 4
                         /\ IsRound(ps[1], 3)
        IN  /\ Cardinality(IndicatorsOf(7, b)) = (IF identical THEN 1 ELSE 0)
            /\ FindingsOf(7, b) = IndicatorsOf(7, b)
            /\ b.confidence = Clamp(100 - (IF identical THEN 25 ELSE 0)
                                        - SumOver(Fired(frame.metrics) \ {7}, PenaltyTable))
            /\ Len(ps) < 4 => IndicatorsOf(7, b) = {}

\* Four or more pings that differ in the sixth decimal only, the first one
\* exact at 3 decimals: check 7 fired.
C21_Witness ==
    /\ ReturnedVerdict
    /\ Len(request.pings) >= 4
    /\ ~SameCoordinates(request.pings)
    /\ IsRound(request.pings[1], 3)
    /\ Cardinality(IndicatorsOf(7, response.body)) = 1

\* The positions of the pings exact at one decimal.
RoundPositions(pings) == {i \in 1..Len(pings) : IsRound(pings[i], 1)}

\* C22: check 8 appends its indicator exactly when one of the first three
\* pings, in input order, is exact at one decimal; a round ping at position
\* 4 or later does not count, and however many of the first three are round
\* there is one indicator and 15 is subtracted once.
C22_RoundCoordinates ==
    ReturnedVerdict =>
        LET b == response.body
            round3 == RoundPositions(request.pings) \cap {1, 2, 3} # {}
        IN  /\ Cardinality(IndicatorsOf(8, b)) = (IF round3 THEN 1 ELSE 0)
            /\ FindingsOf(8, b) = IndicatorsOf(8, b)
            /\ b.confidence = Clamp(100 - (IF round3 THEN 15 ELSE 0)
                                        - SumOver(Fired(frame.metrics) \ {8}, PenaltyTable))

\* The only round ping is the fourth, and check 8 did not fire.
C22_Witness ==
    /\ ReturnedVerdict
    /\ RoundPositions(request.pings) = {4}
    /\ IndicatorsOf(8, response.body) = {}

\* The distances between the neighbours of a ping list, in the list's order.
AdjacentDistances(pings) ==
    [i \in 1..(Len(pings) - 1) |->
        HaversineTable[PointIndex(pings[i].lat, pings[i].lng)]
                      [PointIndex(pings[i + 1].lat, pings[i + 1].lng)]]

\* A ping list in the order of its timestamps.
ByTimestamp(pings) == SortSeq(pings, LAMBDA p, q : p.timestamp < q.timestamp)

\* C23: the pings are used in the order supplied: the i-th movement is the
\* distance between the i-th ping and the next one of the request, whatever
\* the timestamps, and the total movement (computed and returned) is the sum
\* of these distances.
C23_InputOrderKept ==
    ReturnedVerdict =>
        LET adjacent == AdjacentDistances(request.pings)
        IN  /\ frame.metrics.pings = request.pings
            /\ frame.metrics.movements = adjacent
            /\ frame.metrics.total_movement = SumSeq(adjacent)
            /\ response.body.metrics.total_movement_km
                  = RoundHalfEven(SumSeq(adjacent), 10)

\* The timestamps of the request are out of order, and the total movement
\* returned is not the one of the pings taken in timestamp order.
C23_Witness ==
    /\ ReturnedVerdict
    /\ ~InvalidGeometry(request)
    /\ \E i \in 1..(Len(request.pings) - 1) :
          request.pings[i].timestamp > request.pings[i + 1].timestamp
    /\ DomainError \notin SeqRange(AdjacentDistances(ByTimestamp(request.pings)))
    /\ response.body.metrics.total_movement_km
          # RoundHalfEven(SumSeq(AdjacentDistances(ByTimestamp(request.pings))), 10)

\* The message and the recommendation that go with each status.
StatusTexts ==
    [ s \in Statuses |->
        CASE s = "NO_DATA" ->
               [message |-> "No location data provided",
                recommendation |-> "Employee must enable location services"]
          [] s = "VERIFIED" ->
               [message |-> "Location verified - Employee presence confirmed",
                recommendation |-> "No action required - Employee location verified"]
          [] s = "PARTIALLY_VERIFIED" ->
               [message |-> "Location partially verified - Minor anomalies detected",
                recommendation |-> "Monitor employee's future check-ins for patterns"]
          [] s = "SPOOFING_SUSPECTED" ->
               [message |-> "GPS spoofing suspected - Manual verification required",
                recommendation |-> "URGENT: Conduct physical verification. Consider disciplinary action if spoofing confirmed."]
          [] s = "VERIFICATION_FAILED" ->
               [message |-> "Location verification failed - Employee may not be at work location",
                recommendation |-> "Require employee to check-in again with better GPS signal or use biometric verification"] ]

\* C24: the message and the recommendation of a result are those of its
\* status, so two results with the same status carry the same message and
\* the same recommendation whatever their risk factors and indicators.
C24_TextsFollowStatus ==
    Returned =>
        /\ response.body.status \in Statuses
        /\ response.body.message = StatusTexts[response.body.status].message
        /\ response.body.recommendation = StatusTexts[response.body.status].recommendation

\* A PARTIALLY_VERIFIED result with a risk factor and a spoofing indicator.
C24_Witness ==
    /\ ReturnedVerdict
    /\ response.body.status = "PARTIALLY_VERIFIED"
    /\ response.body.risk_factors # <<>>
    /\ response.body.spoofing_indicators # <<>>
    /\ response.body.recommendation = "Monitor employee's future check-ins for patterns"

\* The pings of the request are at valid coordinates.
ValidPings(pings) ==
    \A i \in 1..Len(pings) : /\ pings[i].lat \in -90000000..90000000
                             /\ pings[i].lng \in -180000000..180000000

C26_VerifiedBounds ==
    /\ (Returned /\ response.body.verified) =>
          /\ request.pings # <<>>
          /\ response.body.confidence >= 60
          /\ Len(response.body.spoofing_indicators) <= 1
    /\ (ReturnedVerdict /\ Len(response.body.spoofing_indicators) >= 2) =>
          /\ response.body.verified = FALSE
          /\ response.body.status = "SPOOFING_SUSPECTED"

\* Two spoofing indicators at the highest confidence two of them leave.
C26_Witness ==
    /\ ReturnedVerdict
    /\ Len(response.body.spoofing_indicators) = 2
    /\ response.body.confidence = 75
    /\ response.body.verified = FALSE
    /\ response.body.status = "SPOOFING_SUSPECTED"

\* C27: a VERIFIED result has at most one risk factor, and it is never the
\* one of check 1: either no check fired, or check 2 alone, or check 4 alone.
C27_VerifiedRiskFactors ==
    (ReturnedVerdict /\ response.body.status = "VERIFIED") =>
        /\ Len(response.body.risk_factors) <= 1
        /\ FindingsOf(1, response.body) = {}
        /\ Fired(frame.metrics) \in {{}, {2}, {4}}
        /\ \A i \in 1..Len(response.body.risk_factors) :
              response.body.risk_factors[i].check \in Fired(frame.metrics)

\* A VERIFIED result whose one risk factor is the excessive movement of
\* check 4.
C27_Witness ==
    /\ ReturnedVerdict
    /\ response.body.status = "VERIFIED"
    /\ Len(response.body.risk_factors) = 1
    /\ response.body.risk_factors[1].check = 4
    /\ response.body.confidence = 85

\* C28: when check 2 is the only check that fires, the result has
\* confidence 80, status VERIFIED and verified = true, and its one finding
\* is the risk factor of check 2.
C28_LowZonePresenceAlone ==
    (ReturnedVerdict /\ Fired(frame.metrics) = {2}) =>
        /\ response.body.confidence = 80
        /\ response.body.status = "VERIFIED"
        /\ response.body.verified = TRUE
        /\ Len(response.body.risk_factors) = 1
        /\ response.body.risk_factors[1].check = 2
        /\ response.body.spoofing_indicators = <<>>

\* Every ping lies outside the radius and the average distance is at most
\* twice the radius: the result is VERIFIED.
C28_Witness ==
    /\ ReturnedVerdict
    /\ ~InvalidGeometry(request)
    /\ Len(request.pings) >= 2
    /\ InZone(request) = {}
    /\ response.body.metrics.zone_percentage = 0
    /\ Fired(frame.metrics) = {2}
    /\ response.body.status = "VERIFIED"

\* C29: no result carries the indicator of check 3 together with the risk
\* factor of check 4 or the indicator of check 6.
C29_StationaryExcludesMovement ==
    ReturnedVerdict =>
        /\ ~(3 \in Fired(frame.metrics) /\ Fired(frame.metrics) \cap {4, 6} # {})
        /\ FindingsOf(3, response.body) # {} =>
              /\ FindingsOf(4, response.body) = {}
              /\ FindingsOf(6, response.body) = {}

\* Four or more pings of which two neighbours do not move, with a total
\* movement above 5 km and a movement above 2 km: checks 4 and 6 fired,
\* check 3 did not.
C29_Witness ==
    /\ ReturnedVerdict
    /\ ~InvalidGeometry(request)
    /\ Len(request.pings) >= 4
    /\ \E i \in 1..Len(frame.metrics.movements) : frame.metrics.movements[i] = 0
    /\ FindingsOf(4, response.body) # {}
    /\ FindingsOf(6, response.body) # {}
    /\ FindingsOf(3, response.body) = {}

\* The check numbers of a list of findings, in the list's order.
ChecksOf(findings) == [i \in 1..Len(findings) |-> findings[i].check]

\* A sequence of numbers in strictly increasing order.
Increasing(s) == \A i \in 1..(Len(s) - 1) : s[i] < s[i + 1]

\* C30: for a non-empty ping list risk_factors holds at most 3 entries, of
\* checks 1, 2, 4 in that order, and spoofing_indicators at most 5, of
\* checks 3, 5, 6, 7, 8 in that order; no check has more than one entry.
C30_FindingLists ==
    ReturnedVerdict =>
        LET risks == ChecksOf(response.body.risk_factors)
            inds == ChecksOf(response.body.spoofing_indicators)
        IN  /\ Len(risks) <= 3
            /\ SeqRange(risks) \subseteq {1, 2, 4}
            /\ Increasing(risks)
            /\ Len(inds) <= 5
            /\ SeqRange(inds) \subseteq {3, 5, 6, 7, 8}
            /\ Increasing(inds)

\* Three risk factors and three spoofing indicators.
C30_Witness ==
    /\ ReturnedVerdict
    /\ ~InvalidGeometry(request)
    /\ ChecksOf(response.body.risk_factors) = <<1, 2, 4>>
    /\ Len(response.body.spoofing_indicators) >= 3

=============================================================================
